---- MODULE Spec2Model ----
(***************************************************************************)
(* Model of generate_posters.py: the timestamp policy, the bounded process *)
(* runner, the duration probe, the per-file extraction loop of main() and   *)
(* the directory walk of iter_video_files.                                  *)
(*                                                                         *)
(* Times are integers in centiseconds (1/100 s).  Durations are drawn on a  *)
(* 0.1 s grid and requested offsets on a 1 s grid, so that the products     *)
(* duration*0.5, duration*0.2 and duration*0.6 of the code are exact.       *)
(***************************************************************************)
EXTENDS Integers, Sequences, FiniteSets, TLC

VARIABLES
    \* ---- timestamp policy harness (SpecPolicy) ----
    p_pc,        \* "input" | "done"
    p_req,       \* snapshot_time, centiseconds
    p_dur,       \* duration: <<>> for None, <<d>> for a float d (centiseconds)
    p_res        \* result of choose_timestamp, centiseconds

VARIABLES
    \* ---- one invocation of main() ----
    args,        \* [force, dry_run, cooldown, ext]: --force, --dry-run, --cooldown > 0, --ext
    run,         \* number of the current invocation (1 = first)
    prev,        \* what the previous invocation ended with (history)
    files,       \* the videos iter_video_files yields, in listing order
    idx,         \* how many of them the for loop has taken
    pc,          \* position in main()
    exit_status, \* -1 while running, else the process exit status
    processed, created, skipped, failed,
    fs,          \* the filesystem: path -> file state
    dur,         \* dur of the current file (None or Some(centiseconds))
    t,           \* t of the current file (centiseconds)
    trace,       \* what main() has done for the current file (history)
    start,       \* target, tmp and counters when the current file was taken (history)
    fs0,         \* the filesystem when this invocation started (history)
    startup,     \* the startup checks passed so far, in order (history)
    spawns,      \* the child processes started for the current file (history)
    \* ---- run_with_timeout ----
    rpc,         \* position in run_with_timeout, "idle" when not called
    proc,        \* the child process of the current call
    kills,       \* kill calls issued by the current call
    ret          \* the tuple the current call returned

VARIABLES
    \* ---- iter_video_files on a directory tree (SpecWalk) ----
    w_pc,        \* "off" | "walk" (inside os.walk) | "body" (loop body) | "done"
    w_tree,      \* the directory tree being walked
    w_stack,     \* os.walk: directories still to be listed, the next one last
    w_cur,       \* the (dirpath, dirnames, filenames) os.walk has just yielded
    visited,     \* visited: the (st_dev, st_ino) keys seen
    w_out,       \* the files yielded so far, in order (history)
    w_err        \* whether os.stat(dirpath) has raised (history)

p_vars == <<p_pc, p_req, p_dur, p_res>>
cnt_vars == <<processed, created, skipped, failed>>
r_vars == <<rpc, proc, kills, ret>>
m_vars == <<args, run, prev, files, idx, pc, exit_status, cnt_vars, fs, dur, t, trace,
           start, fs0, startup, spawns, startup, spawns>>

w_vars == <<w_pc, w_tree, w_stack, w_cur, visited, w_out, w_err>>

vars == <<p_vars, m_vars, r_vars, w_vars>>

-----------------------------------------------------------------------------
(* Bounds of the policy harness *)
MaxReqSec == 125       \* requested offsets -1 s .. MaxReqSec s, step 1 s
MaxDurTenths == 650    \* durations -0.1 s .. MaxDurTenths/10 s, step 0.1 s

(* Program constants *)
ExtremelyShortCs == 600   \* "if duration < 6"

None == <<>>
Some(x) == <<x>>

Max(a, b) == IF a >= b THEN a ELSE b
Min(a, b) == IF a <= b THEN a ELSE b

\* The policy with the duration ignored: the fixed requested offset.
choose_timestamp_fixed(snapshot_time, duration) == Max(0, snapshot_time)

\* The policy with a 60 s threshold below which the offset is clamped to half
\* the duration, and the request returned as it is above it.
choose_timestamp_midpoint(snapshot_time, duration) ==
    IF duration = None \/ duration[1] <= 0
    THEN Max(0, snapshot_time)
    ELSE IF duration[1] < 6000
         THEN Min(Max(0, snapshot_time), (duration[1] * 5) \div 10)
         ELSE Max(0, snapshot_time)

\* The policy without the move away from the end of the video.
choose_timestamp_no_end_guard(snapshot_time, duration) ==
    IF duration = None \/ duration[1] <= 0
    THEN Max(0, snapshot_time)
    ELSE LET d == duration[1] IN
         IF d < ExtremelyShortCs
         THEN Max(0, (d * 5) \div 10)
         ELSE LET t0 == IF snapshot_time > 0 THEN snapshot_time ELSE (d * 2) \div 10
              IN  Max(0, Min(t0, d - 20))

\* def choose_timestamp(snapshot_time, duration)
choose_timestamp(snapshot_time, duration) ==
    IF duration = None \/ duration[1] <= 0
    THEN Max(0, snapshot_time)
    ELSE LET d == duration[1] IN
         IF d < ExtremelyShortCs
         THEN Max(0, (d * 5) \div 10)
         ELSE LET t0 == IF snapshot_time > 0 THEN snapshot_time ELSE (d * 2) \div 10
                  t1 == IF t0 >= d - 50 THEN (d * 6) \div 10 ELSE t0
              IN  Max(0, Min(t1, d - 20))

Requests == { 100 * j : j \in -1..MaxReqSec }
Durations == { None } \cup { Some(10 * k) : k \in -1..MaxDurTenths }

-----------------------------------------------------------------------------
(* Bounds of the main model *)
MaxFiles == 2          \* videos enumerated in one run
MaxTwiceFiles == 1     \* videos enumerated when the program is run twice

(* Program constants *)
DefaultSnapshotCs == 12000   \* --snapshot-time default=120
CompatSeekCs == 500          \* compat_t = 5.0
TimeoutCode == 124           \* return 124, ...

(* Paths: a file name is its stem and its final suffix, all in one directory *)
Path(stem, ext) == [stem |-> stem, ext |-> ext]
Name(p) == p.stem \o "." \o p.ext

\* The poster named after the whole file name, final suffix included.
poster_path_for_keeps_suffix(video) == Path(Name(video) \o "-poster", "jpg")

\* def poster_path_for(video)
poster_path_for(video) == Path(video.stem \o "-poster", "jpg")

\* tmp = target.with_name(target.name + ".tmp")
tmp_path_for(target) == Path(Name(target), "tmp")

DEFAULT_EXTS == {"mp4", "mkv", "avi", "mov", "wmv", "ts"}

\* exts = set(DEFAULT_EXTS); for e in args.ext: exts.add(e.lower().lstrip("."))
exts == DEFAULT_EXTS \cup args.ext

VideoPool == { Path("a", "mp4"), Path("a", "mkv"), Path("b", "mp4") }
\* files that are candidates only with --ext jpg or --ext tmp
ExtraPool == { Path("a-poster", "jpg"), Path("a-poster.jpg", "tmp") }
Candidates == VideoPool \cup ExtraPool
PosterPaths == { poster_path_for(v) : v \in Candidates }
TmpPaths == { tmp_path_for(q) : q \in PosterPaths }
Paths == Candidates \cup PosterPaths \cup TmpPaths

(* File states.  k: absent | empty | partial | full | video ("partial": some *)
(* bytes of a frame, "full": a whole frame).  src says which video the bytes *)
(* were extracted from ("old": written before this invocation).             *)
Absent == [k |-> "absent", src |-> ""]
Empty == [k |-> "empty", src |-> ""]
VideoFile == [k |-> "video", src |-> ""]
Old(k) == [k |-> k, src |-> "old"]
Written(k, v) == [k |-> k, src |-> Name(v)]

exists(f) == f.k # "absent"
nonempty(f) == f.k \in {"partial", "full", "video"}

(* Probe results used by the main model *)
ProbeDurations == { Some(300) }

NoProc == [kind |-> "none", ss |-> 0, out |-> Path("", ""), alive |-> FALSE,
           setsid |-> FALSE, signalled |-> FALSE, code |-> 0, stderr |-> <<>>,
           stage |-> 0, timed_out |-> FALSE]
NoRet == [code |-> 0, stderr |-> <<>>]
\* a child process started: which command, whether run_with_timeout started it,
\* and whether it was put in a session and process group of its own
Spawn(kind, runner, setsid) == [kind |-> kind, runner |-> runner, setsid |-> setsid]
NoStart == [target |-> Absent, tmp |-> Absent, created |-> 0, skipped |-> 0,
            failed |-> 0]
NoPrev == [dry_run |-> FALSE, created |-> 0, failed |-> 0, exit_status |-> -1]

RECURSIVE Distinct(_)
Distinct(s) ==
    IF Len(s) <= 1 THEN TRUE
    ELSE /\ \A i \in 2..Len(s) : s[i] # s[1]
         /\ Distinct(Tail(s))

FileLists ==
    UNION { { s \in [1..n -> VideoPool] : Distinct(s) } : n \in 0..MaxFiles }

Video == files[idx]
Target == poster_path_for(Video)
Tmp == tmp_path_for(Target)

PolicyOff ==
    /\ p_pc = "off"
    /\ p_req = 0
    /\ p_dur = None
    /\ p_res = 0

NoCur == [dirpath |-> <<>>, dirnames |-> <<>>, filenames |-> <<>>]
NoTree == [parent |-> <<>>, links |-> {}, rev |-> FALSE]

WalkOff ==
    /\ w_pc = "off"
    /\ w_tree = NoTree
    /\ w_stack = <<>>
    /\ w_cur = NoCur
    /\ visited = {}
    /\ w_out = <<>>
    /\ w_err = FALSE

RunnerIdle ==
    /\ rpc = "idle"
    /\ proc = NoProc
    /\ kills = <<>>
    /\ ret = NoRet

Init ==
    /\ PolicyOff
    /\ WalkOff
    /\ RunnerIdle
    /\ args \in [force : BOOLEAN, dry_run : BOOLEAN, cooldown : BOOLEAN, ext : {{}}]
    /\ run = 1
    /\ prev = NoPrev
    /\ files \in FileLists
    /\ idx = 0
    /\ pc = "check_root"
    /\ exit_status = -1
    /\ processed = 0 /\ created = 0 /\ skipped = 0 /\ failed = 0
    /\ \E ps \in [PosterPaths -> {Absent, Empty, Old("full")}] :
          /\ \A q \in PosterPaths :
                (\A i \in 1..Len(files) : poster_path_for(files[i]) # q)
                    => ps[q] = Absent
          /\ fs = [p \in Paths |->
                     IF p \in VideoPool
                     THEN IF \E i \in 1..Len(files) : files[i] = p
                          THEN VideoFile ELSE Absent
                     ELSE IF p \in PosterPaths THEN ps[p] ELSE Absent]
    /\ fs0 = fs
    /\ startup = <<>>
    /\ spawns = <<>>
    /\ start = NoStart
    /\ dur = None
    /\ t = 0
    /\ trace = <<>>

(* An uncaught exception leaves main(): traceback, exit status 1 *)
Raise ==
    /\ pc' = "crashed"
    /\ exit_status' = 1

\* search_dir.is_dir() ... return 1
CheckRoot ==
    /\ pc = "check_root"
    /\ \E is_dir \in BOOLEAN :
          IF is_dir
          THEN /\ pc' = "which_ffmpeg"
               /\ startup' = Append(startup, "root")
               /\ UNCHANGED exit_status
          ELSE /\ pc' = "exited"
               /\ exit_status' = 1
               /\ UNCHANGED startup
    /\ UNCHANGED <<p_vars, w_vars, r_vars, args, run, prev, files, fs0, spawns, start, idx, cnt_vars, fs, dur, t, trace>>

\* The lookup of a tool that goes on when the tool is not found.
which_or_exit_no_exit(name, here, next) ==
    /\ pc = here
    /\ \E found \in BOOLEAN :
          startup' = IF found THEN Append(startup, name) ELSE startup
    /\ pc' = next
    /\ UNCHANGED <<p_vars, w_vars, r_vars, args, run, prev, files, fs0, spawns, start, idx, cnt_vars,
                   fs, dur, t, trace, exit_status>>

\* def which_or_exit(name), called for ffmpeg and then for ffprobe
which_or_exit(name, here, next) ==
    /\ pc = here
    /\ \E found \in BOOLEAN :
          IF found
          THEN /\ pc' = next
               /\ startup' = Append(startup, name)
               /\ UNCHANGED exit_status
          ELSE /\ pc' = "exited"
               /\ exit_status' = 1
               /\ UNCHANGED startup
    /\ UNCHANGED <<p_vars, w_vars, r_vars, args, run, prev, files, fs0, spawns, start, idx, cnt_vars, fs, dur, t, trace>>

WhichFfmpeg == which_or_exit("ffmpeg", "which_ffmpeg", "which_ffprobe")
WhichFfprobe == which_or_exit("ffprobe", "which_ffprobe", "loop")

\* for video in iter_video_files(...): processed += 1; target = poster_path_for(video)
NextFile ==
    /\ pc = "loop"
    /\ rpc = "idle"
    /\ idx < Len(files)
    /\ idx' = idx + 1
    /\ processed' = processed + 1
    /\ trace' = <<>>
    /\ dur' = None
    /\ t' = 0
    /\ pc' = "check_existing"
    /\ start' = [target |-> fs[poster_path_for(files[idx + 1])],
                 tmp |-> fs[tmp_path_for(poster_path_for(files[idx + 1]))],
                 created |-> created, skipped |-> skipped, failed |-> failed]
    /\ spawns' = <<>>
    /\ UNCHANGED <<p_vars, w_vars, r_vars, args, run, prev, files, fs0, startup, exit_status,
                   created, skipped, failed, fs>>

\* after the loop: the summary, return 0
Summary ==
    /\ pc = "loop"
    /\ idx = Len(files)
    /\ pc' = "exited"
    /\ exit_status' = 0
    /\ UNCHANGED <<p_vars, w_vars, r_vars, args, run, prev, files, fs0, startup, spawns, start, idx, cnt_vars, fs, dur, t, trace>>

\* The existing-poster test with the skip branch falling through to the probe.
CheckExisting_no_continue ==
    /\ pc = "check_existing"
    /\ skipped' = IF exists(fs[Target]) /\ nonempty(fs[Target]) /\ ~args.force
                  THEN skipped + 1 ELSE skipped
    /\ pc' = IF exists(fs[Target]) /\ nonempty(fs[Target]) /\ args.force /\ ~args.dry_run
             THEN "delete_old" ELSE "probe"
    /\ UNCHANGED <<p_vars, w_vars, r_vars, args, run, prev, files, fs0, startup, spawns, start, idx, processed, created,
                   failed, fs, dur, t, exit_status, trace>>

\* if target.exists() and target.stat().st_size > 0: force / dry-run / skip
CheckExisting ==
    /\ pc = "check_existing"
    /\ \E raises \in BOOLEAN :
          IF raises
          THEN Raise /\ UNCHANGED <<skipped, trace>>
          ELSE /\ UNCHANGED exit_status
               /\ IF exists(fs[Target]) /\ nonempty(fs[Target])
                  THEN IF args.force
                       THEN IF args.dry_run
                            THEN /\ trace' = Append(trace, "simulate_delete")
                                 /\ pc' = "probe"
                                 /\ UNCHANGED skipped
                            ELSE /\ pc' = "delete_old"
                                 /\ UNCHANGED <<skipped, trace>>
                       ELSE /\ skipped' = skipped + 1
                            /\ pc' = "loop"
                            /\ UNCHANGED trace
                  ELSE /\ pc' = "probe"
                       /\ UNCHANGED <<skipped, trace>>
    /\ UNCHANGED <<p_vars, w_vars, r_vars, args, run, prev, files, fs0, startup, spawns, start, idx, processed, created,
                   failed, fs, dur, t>>

\* The deletion of the old poster with its failure counted but not ending the
\* file's processing.
DeleteOld_falls_through ==
    /\ pc = "delete_old"
    /\ \E raises \in BOOLEAN :
          IF raises
          THEN /\ trace' = Append(trace, "unlink_target_raised")
               /\ failed' = failed + 1
               /\ UNCHANGED fs
          ELSE /\ trace' = Append(trace, "unlink_target")
               /\ fs' = [fs EXCEPT ![Target] = Absent]
               /\ UNCHANGED failed
    /\ pc' = "probe"
    /\ UNCHANGED <<p_vars, w_vars, r_vars, args, run, prev, files, fs0, startup, spawns, start, idx, exit_status,
                   processed, created, skipped, dur, t>>

\* The force branch going on to the probe with the old poster kept in place.
DeleteOld_keeps_poster ==
    /\ pc = "delete_old"
    /\ trace' = Append(trace, "unlink_target")
    /\ pc' = "probe"
    /\ UNCHANGED <<p_vars, w_vars, r_vars, args, run, prev, files, fs0, startup, spawns, start,
                   idx, exit_status, cnt_vars, fs, dur, t>>

\* target.unlink(missing_ok=True); except Exception: failed += 1; continue
DeleteOld ==
    /\ pc = "delete_old"
    /\ \E raises \in BOOLEAN :
          IF raises
          THEN /\ trace' = Append(trace, "unlink_target_raised")
               /\ failed' = failed + 1
               /\ pc' = "loop"
               /\ UNCHANGED fs
          ELSE /\ trace' = Append(trace, "unlink_target")
               /\ fs' = [fs EXCEPT ![Target] = Absent]
               /\ pc' = "probe"
               /\ UNCHANGED failed
    /\ UNCHANGED <<p_vars, w_vars, r_vars, args, run, prev, files, fs0, startup, spawns, start, idx, exit_status,
                   processed, created, skipped, dur, t>>

-----------------------------------------------------------------------------
(* run_with_timeout(cmd, timeout_s) and the child process it runs *)

\* the call itself: control enters run_with_timeout with a fresh child record
call_run_with_timeout(kind, ss, out) ==
    /\ rpc = "idle"
    /\ rpc' = "popen"
    /\ proc' = [NoProc EXCEPT !.kind = kind, !.ss = ss, !.out = out]
    /\ kills' = <<>>
    /\ ret' = NoRet

\* the caller has taken the returned tuple
leave_run_with_timeout ==
    /\ rpc' = "idle"
    /\ proc' = NoProc
    /\ kills' = <<>>
    /\ ret' = NoRet

\* proc = subprocess.Popen(cmd, ..., preexec_fn=os.setsid); an OSError is not
\* caught by run_with_timeout nor by any of its callers
Popen ==
    /\ rpc = "popen"
    /\ \E raises \in BOOLEAN :
          IF raises
          THEN /\ Raise
               /\ leave_run_with_timeout
               /\ UNCHANGED spawns
          ELSE /\ proc' = [proc EXCEPT !.alive = TRUE, !.setsid = TRUE]
               /\ spawns' = Append(spawns, Spawn(proc.kind, TRUE, TRUE))
               /\ rpc' = "communicate"
               /\ UNCHANGED <<pc, exit_status, kills, ret>>
    /\ UNCHANGED <<p_vars, w_vars, args, run, prev, files, fs0, startup, start, idx, cnt_vars, fs, dur, t, trace>>

\* the extraction tool opens its output (the last argument of cmd, "-y") and
\* writes the frame: untouched -> empty -> partial -> full
ChildWrite ==
    /\ rpc = "communicate"
    /\ proc.alive
    /\ proc.kind \in {"fast", "compat"}
    /\ proc.stage < 3
    /\ proc' = [proc EXCEPT !.stage = @ + 1]
    /\ fs' = [fs EXCEPT ![proc.out] =
                 IF proc.stage = 0 THEN Empty
                 ELSE IF proc.stage = 1 THEN Written("partial", Video)
                 ELSE Written("full", Video)]
    /\ UNCHANGED <<p_vars, w_vars, args, run, prev, files, fs0, startup, spawns, start, idx, pc, exit_status, cnt_vars,
                   dur, t, trace, rpc, kills, ret>>

\* the child ends by itself: exit code 0 with nothing on stderr, or exit code 1
\* with an error message; it does not report success with a half-written file,
\* nor failure with a whole frame written; it may report success with no file
\* written at all (the code tests tmp.exists() after code == 0)
ChildExit ==
    /\ rpc = "communicate"
    /\ proc.alive
    /\ \E c \in {0, 1} :
          /\ c = 0 => proc.stage # 2
          /\ c = 1 => proc.stage # 3
          /\ proc' = [proc EXCEPT !.alive = FALSE, !.code = c,
                                  !.stderr = IF c = 0 THEN <<>> ELSE <<"E">>]
    /\ UNCHANGED <<p_vars, w_vars, m_vars, rpc, kills, ret>>

\* the child dies of the SIGKILL it was sent; what it had put on stderr by
\* then is captured (a message if it had not got to writing its output)
ChildDie ==
    /\ proc.alive /\ proc.signalled
    /\ proc' = [proc EXCEPT !.alive = FALSE, !.code = -9,
                            !.stderr = IF proc.stage = 0 THEN <<"E">> ELSE <<>>]
    /\ UNCHANGED <<p_vars, w_vars, m_vars, rpc, kills, ret>>

\* _, stderr = proc.communicate(timeout=timeout_s); return proc.returncode, stderr or ""
CommunicateDone ==
    /\ rpc = "communicate"
    /\ ~proc.alive
    /\ ret' = [code |-> proc.code, stderr |-> proc.stderr]
    /\ rpc' = "returned"
    /\ UNCHANGED <<p_vars, w_vars, m_vars, proc, kills>>

\* except subprocess.TimeoutExpired:
CommunicateTimeout ==
    /\ rpc = "communicate"
    /\ proc.alive
    /\ proc' = [proc EXCEPT !.timed_out = TRUE]
    /\ rpc' = "timeout"
    /\ UNCHANGED <<p_vars, w_vars, m_vars, kills, ret>>

\* os.killpg(proc.pid, signal.SIGKILL); except Exception: -> proc.kill()
Killpg ==
    /\ rpc = "timeout"
    /\ \E raises \in BOOLEAN :
          IF raises
          THEN /\ kills' = Append(kills, "killpg_raised")
               /\ rpc' = "fallback"
               /\ UNCHANGED proc
          ELSE /\ kills' = Append(kills, "killpg")
               /\ proc' = [proc EXCEPT !.signalled = proc.alive]
               /\ rpc' = "communicate_after_kill"
    /\ UNCHANGED <<p_vars, w_vars, m_vars, ret>>

\* proc.kill(): SIGKILL to the direct child only
ProcKill ==
    /\ rpc = "fallback"
    /\ kills' = Append(kills, "kill")
    /\ proc' = [proc EXCEPT !.signalled = proc.alive]
    /\ rpc' = "communicate_after_kill"
    /\ UNCHANGED <<p_vars, w_vars, m_vars, ret>>

\* The timeout return taken without waiting for the child to exit.
CommunicateAfterKill_nowait ==
    /\ rpc = "communicate_after_kill"
    /\ ret' = [code |-> TimeoutCode, stderr |-> Append(proc.stderr, "[timeout]")]
    /\ rpc' = "returned"
    /\ UNCHANGED <<p_vars, w_vars, m_vars, proc, kills>>

\* _, stderr = proc.communicate(); return 124, (stderr or "") + "\n[timeout]"
CommunicateAfterKill ==
    /\ rpc = "communicate_after_kill"
    /\ ~proc.alive
    /\ ret' = [code |-> TimeoutCode, stderr |-> Append(proc.stderr, "[timeout]")]
    /\ rpc' = "returned"
    /\ UNCHANGED <<p_vars, w_vars, m_vars, proc, kills>>

-----------------------------------------------------------------------------
(* ffprobe_duration_seconds(ffprobe, video) *)

\* code, err = run_with_timeout(cmd, timeout_s)
ProbeStart ==
    /\ pc = "probe"
    /\ call_run_with_timeout("probe", 0, Path("", ""))
    /\ trace' = Append(trace, "probe")
    /\ pc' = "probe_wait"
    /\ UNCHANGED <<p_vars, w_vars, args, run, prev, files, fs0, startup, spawns, start, idx, exit_status, cnt_vars, fs, dur, t>>

\* if code != 0: return None
ProbeReturn ==
    /\ pc = "probe_wait"
    /\ rpc = "returned"
    /\ leave_run_with_timeout
    /\ IF ret.code # 0
       THEN dur' = None /\ pc' = "choose"
       ELSE UNCHANGED dur /\ pc' = "probe_run"
    /\ UNCHANGED <<p_vars, w_vars, args, run, prev, files, fs0, startup, spawns, start, idx, exit_status, cnt_vars, fs, t, trace>>

\* r = subprocess.run(cmd, capture_output=True, text=True, timeout=timeout_s),
\* inside try ... except Exception: return None.  subprocess.run starts the
\* command a second time by itself: not through run_with_timeout, without
\* preexec_fn=os.setsid, and on its timeout it kills the direct child only.
\* Every failure (spawn error, timeout, exit code, empty or unparseable
\* stdout) gives None, a parseable stdout gives float(s).
ProbeRun ==
    /\ pc = "probe_run"
    /\ \E spawned \in BOOLEAN :
          IF spawned
          THEN /\ spawns' = Append(spawns, Spawn("probe", FALSE, FALSE))
               /\ dur' \in {None} \cup ProbeDurations
          ELSE /\ UNCHANGED spawns
               /\ dur' = None
    /\ trace' = Append(trace, "probe_run")
    /\ pc' = "choose"
    /\ UNCHANGED <<p_vars, w_vars, r_vars, args, run, prev, files, fs0, startup, start, idx, exit_status, cnt_vars, fs, t>>

-----------------------------------------------------------------------------
(* main(): the rest of the loop body *)

\* The offset computed and the extraction reached whatever --dry-run says.
Choose_ignores_dry_run ==
    /\ pc = "choose"
    /\ t' = choose_timestamp(DefaultSnapshotCs, dur)
    /\ pc' = "fast"
    /\ UNCHANGED <<p_vars, w_vars, r_vars, args, run, prev, files, fs0, startup, spawns, start, idx, exit_status, cnt_vars,
                   fs, dur, trace>>

\* t = choose_timestamp(args.snapshot_time, dur); if args.dry_run: ... continue
Choose ==
    /\ pc = "choose"
    /\ t' = choose_timestamp(DefaultSnapshotCs, dur)
    /\ IF args.dry_run
       THEN trace' = Append(trace, "dry_report") /\ pc' = "loop"
       ELSE UNCHANGED trace /\ pc' = "fast"
    /\ UNCHANGED <<p_vars, w_vars, r_vars, args, run, prev, files, fs0, startup, spawns, start, idx, exit_status, cnt_vars, fs, dur>>

\* cmd_fast = [..., "-ss", f"{t}", "-i", str(video), *common_output, str(tmp)]: its output
cmd_fast_out == Tmp

\* code, err = run_with_timeout(cmd_fast, args.fast_timeout)
FastStart ==
    /\ pc = "fast"
    /\ call_run_with_timeout("fast", t, cmd_fast_out)
    /\ trace' = Append(trace, "fast")
    /\ pc' = "fast_wait"
    /\ UNCHANGED <<p_vars, w_vars, args, run, prev, files, fs0, startup, spawns, start, idx, exit_status, cnt_vars, fs, dur, t>>

\* ok = (code == 0 and tmp.exists() and tmp.stat().st_size > 0)
attempt_ok(c) == c = 0 /\ exists(fs[Tmp]) /\ nonempty(fs[Tmp])

\* the test after an attempt: exists()/stat() are reached only when code == 0
\* and may raise.  The trace records "_ok_unwritten" when the test passes on a
\* file this attempt's child did not write.
check_attempt(here, name, yes, no) ==
    /\ pc = here
    /\ rpc = "returned"
    /\ leave_run_with_timeout
    /\ \E raises \in BOOLEAN :
          IF raises /\ ret.code = 0
          THEN Raise /\ UNCHANGED trace
          ELSE /\ UNCHANGED exit_status
               /\ IF attempt_ok(ret.code)
                  THEN /\ pc' = yes
                       /\ trace' = Append(trace, IF proc.stage = 0
                                                 THEN name \o "_ok_unwritten"
                                                 ELSE name \o "_ok")
                  ELSE /\ pc' = no
                       /\ trace' = Append(trace, name \o "_failed")
    /\ UNCHANGED <<p_vars, w_vars, args, run, prev, files, fs0, startup, spawns, start, idx, cnt_vars, fs, dur, t>>

FastCheck == check_attempt("fast_wait", "fast", "commit1", "cleanup1")

\* The success branch counting the poster without renaming the temporary file.
commit_count_only(here) ==
    /\ pc = here
    /\ created' = created + 1
    /\ trace' = Append(trace, "replace")
    /\ pc' = "cooldown"
    /\ UNCHANGED <<p_vars, w_vars, r_vars, args, run, prev, files, fs0, startup, spawns, start, idx, processed, skipped,
                   failed, dur, t, fs, exit_status>>

\* os.replace(tmp, target); created += 1   (an OSError is not caught)
commit(here) ==
    /\ pc = here
    /\ \E raises \in BOOLEAN :
          IF raises
          THEN Raise /\ UNCHANGED <<fs, created, trace>>
          ELSE /\ fs' = [fs EXCEPT ![Target] = fs[Tmp], ![Tmp] = Absent]
               /\ created' = created + 1
               /\ trace' = Append(trace, "replace")
               /\ pc' = "cooldown"
               /\ UNCHANGED exit_status
    /\ UNCHANGED <<p_vars, w_vars, r_vars, args, run, prev, files, fs0, startup, spawns, start, idx, processed, skipped,
                   failed, dur, t>>

Commit1 == commit("commit1")

\* try: tmp.unlink(missing_ok=True); except Exception: pass
unlink_tmp ==
    \E raises \in BOOLEAN :
       IF raises
       THEN /\ trace' = Append(trace, "unlink_tmp_raised")
            /\ UNCHANGED fs
       ELSE /\ trace' = Append(trace, "unlink_tmp")
            /\ fs' = [fs EXCEPT ![Tmp] = Absent]

Cleanup1 ==
    /\ pc = "cleanup1"
    /\ unlink_tmp
    /\ pc' = "compat"
    /\ UNCHANGED <<p_vars, w_vars, r_vars, args, run, prev, files, fs0, startup, spawns, start, idx, exit_status, cnt_vars, dur, t>>

\* compat_t = 5.0; if dur is not None and dur < 6: compat_t = max(0.0, dur * 0.5)
compat_t ==
    IF dur # None /\ dur[1] < ExtremelyShortCs
    THEN Max(0, (dur[1] * 5) \div 10)
    ELSE CompatSeekCs

\* code2, err2 = run_with_timeout(cmd_compat, args.compat_timeout)
CompatStart ==
    /\ pc = "compat"
    /\ call_run_with_timeout("compat", compat_t, Tmp)
    /\ trace' = Append(trace, "compat")
    /\ pc' = "compat_wait"
    /\ UNCHANGED <<p_vars, w_vars, args, run, prev, files, fs0, startup, spawns, start, idx, exit_status, cnt_vars, fs, dur, t>>

CompatCheck == check_attempt("compat_wait", "compat", "commit2", "cleanup2")

Commit2 == commit("commit2")

\* The last else counting the failure and leaving the temporary file behind.
Cleanup2_no_unlink ==
    /\ pc = "cleanup2"
    /\ failed' = failed + 1
    /\ pc' = "cooldown"
    /\ UNCHANGED <<p_vars, w_vars, r_vars, args, run, prev, files, fs0, startup, spawns, start, idx, exit_status,
                   processed, created, skipped, dur, t, fs, trace>>

\* the last else: tmp.unlink, failed += 1
Cleanup2 ==
    /\ pc = "cleanup2"
    /\ unlink_tmp
    /\ failed' = failed + 1
    /\ pc' = "cooldown"
    /\ UNCHANGED <<p_vars, w_vars, r_vars, args, run, prev, files, fs0, startup, spawns, start, idx, exit_status,
                   processed, created, skipped, dur, t>>

\* if args.cooldown > 0: time.sleep(args.cooldown)
Cooldown ==
    /\ pc = "cooldown"
    /\ trace' = IF args.cooldown THEN Append(trace, "sleep") ELSE trace
    /\ pc' = "loop"
    /\ UNCHANGED <<p_vars, w_vars, r_vars, args, run, prev, files, fs0, startup, spawns, start, idx, exit_status, cnt_vars,
                   fs, dur, t>>

\* the same command is started again on the same tree, with or without
\* --dry-run: main() from its first line
Rerun ==
    /\ pc \in {"exited", "crashed"}
    /\ run = 1
    /\ run' = run + 1
    /\ prev' = [dry_run |-> args.dry_run, created |-> created, failed |-> failed,
                exit_status |-> exit_status]
    /\ \E d \in BOOLEAN : args' = [args EXCEPT !.dry_run = d]
    /\ idx' = 0
    /\ pc' = "check_root"
    /\ exit_status' = -1
    /\ processed' = 0 /\ created' = 0 /\ skipped' = 0 /\ failed' = 0
    /\ fs' = [p \in Paths |->
                IF fs[p].k \in {"partial", "full"} THEN Old(fs[p].k) ELSE fs[p]]
    /\ fs0' = fs'
    /\ startup' = <<>>
    /\ spawns' = <<>>
    /\ start' = NoStart
    /\ dur' = None
    /\ t' = 0
    /\ trace' = <<>>
    /\ UNCHANGED <<p_vars, w_vars, r_vars, files>>

Next ==
    \/ CheckRoot \/ WhichFfmpeg \/ WhichFfprobe
    \/ NextFile \/ Summary \/ CheckExisting \/ DeleteOld
    \/ ProbeStart \/ ProbeReturn \/ ProbeRun \/ Choose
    \/ FastStart \/ FastCheck \/ Commit1 \/ Cleanup1
    \/ CompatStart \/ CompatCheck \/ Commit2 \/ Cleanup2
    \/ Cooldown
    \/ Popen \/ ChildWrite \/ ChildExit \/ ChildDie
    \/ CommunicateDone \/ CommunicateTimeout \/ Killpg \/ ProcKill
    \/ CommunicateAfterKill

Spec == Init /\ [][Next]_vars

(* A run with --ext jpg or --ext tmp in a directory that holds a.mp4 and files *)
(* with those suffixes                                                        *)
ExtFileLists ==
    UNION { { s \in [1..n -> {Path("a", "mp4")} \cup ExtraPool] : Distinct(s) } :
            n \in 1..MaxFiles }

InitExt ==
    /\ PolicyOff
    /\ WalkOff
    /\ RunnerIdle
    /\ args \in [force : BOOLEAN, dry_run : BOOLEAN, cooldown : {FALSE},
                 ext : {{"jpg"}, {"tmp"}}]
    /\ run = 1
    /\ prev = NoPrev
    /\ files \in ExtFileLists
    /\ \A i \in 1..Len(files) : files[i].ext \in exts
    /\ idx = 0
    /\ pc = "check_root"
    /\ exit_status = -1
    /\ processed = 0 /\ created = 0 /\ skipped = 0 /\ failed = 0
    /\ \E es \in [ExtraPool -> {Empty, Old("full")}] :
          fs = [p \in Paths |->
                  IF \E i \in 1..Len(files) : files[i] = p
                  THEN IF p \in ExtraPool THEN es[p] ELSE VideoFile
                  ELSE Absent]
    /\ fs0 = fs
    /\ startup = <<>>
    /\ spawns = <<>>
    /\ start = NoStart
    /\ dur = None
    /\ t = 0
    /\ trace = <<>>

SpecExt == InitExt /\ [][Next]_vars

(* Two invocations in a row on the same tree *)
\* (the videos of one stem only, to keep two runs small)
InitTwice ==
    /\ Init
    /\ Len(files) <= MaxTwiceFiles
    /\ \A i \in 1..Len(files) : files[i].stem = "a"

NextTwice == Next \/ Rerun

SpecTwice == InitTwice /\ [][NextTwice]_vars

-----------------------------------------------------------------------------
(* The timestamp policy on its own *)

PolicyInit ==
    /\ p_pc = "input"
    /\ p_req \in Requests
    /\ p_dur \in Durations
    /\ p_res = 0
    /\ WalkOff
    /\ RunnerIdle
    /\ args = [force |-> FALSE, dry_run |-> FALSE, cooldown |-> FALSE, ext |-> {}]
    /\ run = 1
    /\ prev = NoPrev
    /\ files = <<>>
    /\ idx = 0
    /\ pc = "exited"
    /\ exit_status = 0
    /\ processed = 0 /\ created = 0 /\ skipped = 0 /\ failed = 0
    /\ fs = [p \in Paths |-> Absent]
    /\ fs0 = fs
    /\ startup = <<>>
    /\ spawns = <<>>
    /\ start = NoStart
    /\ dur = None
    /\ t = 0
    /\ trace = <<>>

PolicyApply ==
    /\ p_pc = "input"
    /\ p_res' = choose_timestamp(p_req, p_dur)
    /\ p_pc' = "done"
    /\ UNCHANGED <<p_req, p_dur, m_vars, r_vars, w_vars>>

SpecPolicy == PolicyInit /\ [][PolicyApply]_vars

-----------------------------------------------------------------------------
(* iter_video_files(root, exts, follow_links=True) on a tree with symlinks *)

MaxDirs == 3           \* real directories, the root included
MaxLinks == 2          \* directory symlinks in the tree
MaxDepth == MaxDirs + 1   \* cap on the length of a dirpath os.walk descends to

Root == 1
Dirs == 1..MaxDirs

\* A tree: parent[d] the real parent of directory d (d > 1), links the
\* directory symlinks <<directory holding the link, directory it points to>>,
\* rev the order in which scandir lists the entries.  Every directory holds
\* two files, n.nfo and v.mp4.
Trees ==
    { tr \in [parent : [2..MaxDirs -> Dirs], links : SUBSET (Dirs \X Dirs),
              rev : BOOLEAN] :
        /\ \A d \in 2..MaxDirs : tr.parent[d] < d
        /\ Cardinality(tr.links) <= MaxLinks }

\* a directory entry that is a directory: a real subdirectory or a symlink
DirEntry(to, link) == [to |-> to, link |-> link]

DirEntries(d) ==
    { DirEntry(c, FALSE) : c \in { c \in 2..MaxDirs : w_tree.parent[c] = d } }
        \cup { DirEntry(l[2], TRUE) : l \in { l \in w_tree.links : l[1] = d } }

EntryRank(e) == 2 * e.to + (IF e.link THEN 1 ELSE 0)

RECURSIVE Listing(_, _)
Listing(S, rev) ==
    IF S = {} THEN <<>>
    ELSE LET e == CHOOSE x \in S : \A y \in S :
                      IF rev THEN EntryRank(x) >= EntryRank(y)
                      ELSE EntryRank(x) <= EntryRank(y)
         IN  <<e>> \o Listing(S \ {e}, rev)

\* os.stat(dirpath): symlinks are followed, the key is that of the directory
\* the path ends in
StatKey(dirpath) == IF dirpath = <<>> THEN Root ELSE dirpath[Len(dirpath)].to

FileNames(d) == <<Path("n", "nfo"), Path("v", "mp4")>>

Reverse(q) == [i \in 1..Len(q) |-> q[Len(q) + 1 - i]]

\* for fn in filenames: ... if ext in exts: yield p
RECURSIVE Yielded(_, _, _)
Yielded(dirpath, key, names) ==
    IF names = <<>> THEN <<>>
    ELSE (IF Head(names).ext \in DEFAULT_EXTS
          THEN <<[dirpath |-> dirpath, name |-> Head(names), key |-> key]>>
          ELSE <<>>) \o Yielded(dirpath, key, Tail(names))

MainOff ==
    /\ args = [force |-> FALSE, dry_run |-> FALSE, cooldown |-> FALSE, ext |-> {}]
    /\ run = 1
    /\ prev = NoPrev
    /\ files = <<>>
    /\ idx = 0
    /\ pc = "exited"
    /\ exit_status = 0
    /\ processed = 0 /\ created = 0 /\ skipped = 0 /\ failed = 0
    /\ fs = [p \in Paths |-> Absent]
    /\ fs0 = fs
    /\ startup = <<>>
    /\ spawns = <<>>
    /\ start = NoStart
    /\ dur = None
    /\ t = 0
    /\ trace = <<>>

\* visited = set(); os.walk(root, followlinks=True) about to list the root
WalkInit ==
    /\ PolicyOff
    /\ RunnerIdle
    /\ MainOff
    /\ w_pc = "walk"
    /\ w_tree \in Trees
    /\ w_stack = << <<>> >>
    /\ w_cur = NoCur
    /\ visited = {}
    /\ w_out = <<>>
    /\ w_err = FALSE

\* os.walk, top-down: take the next directory, list it, yield the triple
WalkYield ==
    /\ w_pc = "walk"
    /\ w_stack # <<>>
    /\ LET top == w_stack[Len(w_stack)] IN
          w_cur' = [dirpath |-> top,
                    dirnames |-> Listing(DirEntries(StatKey(top)), w_tree.rev),
                    filenames |-> FileNames(StatKey(top))]
    /\ w_stack' = SubSeq(w_stack, 1, Len(w_stack) - 1)
    /\ w_pc' = "body"
    /\ UNCHANGED <<p_vars, m_vars, r_vars, w_tree, visited, w_out, w_err>>

\* os.walk resumed after the body: the dirnames left are descended into, the
\* first one next (symlinks too: followlinks=True)
Descend(dirnames) ==
    IF Len(w_cur.dirpath) < MaxDepth
    THEN w_stack \o Reverse([i \in 1..Len(dirnames) |->
                                Append(w_cur.dirpath, dirnames[i])])
    ELSE w_stack

\* The loop body without the visited test: every directory yielded is taken.
WalkBody_no_visited ==
    /\ w_pc = "body"
    /\ visited' = visited \cup {StatKey(w_cur.dirpath)}
    /\ w_out' = w_out \o Yielded(w_cur.dirpath, StatKey(w_cur.dirpath), w_cur.filenames)
    /\ w_stack' = Descend(w_cur.dirnames)
    /\ w_cur' = NoCur
    /\ w_pc' = "walk"
    /\ UNCHANGED <<p_vars, m_vars, r_vars, w_tree, w_err>>

\* the body of the for loop of iter_video_files, lines 101-117
WalkBody ==
    /\ w_pc = "body"
    /\ \E raises \in BOOLEAN :
          LET key == StatKey(w_cur.dirpath) IN
          IF raises
          THEN /\ w_err' = TRUE
               /\ w_stack' = Descend(<<>>)
               /\ UNCHANGED <<visited, w_out>>
          ELSE /\ UNCHANGED w_err
               /\ IF key \in visited
                  THEN /\ w_stack' = Descend(<<>>)
                       /\ UNCHANGED <<visited, w_out>>
                  ELSE /\ visited' = visited \cup {key}
                       /\ w_out' = w_out \o Yielded(w_cur.dirpath, key, w_cur.filenames)
                       /\ w_stack' = Descend(w_cur.dirnames)
    /\ w_cur' = NoCur
    /\ w_pc' = "walk"
    /\ UNCHANGED <<p_vars, m_vars, r_vars, w_tree>>

\* os.walk has nothing left: the generator is exhausted
WalkDone ==
    /\ w_pc = "walk"
    /\ w_stack = <<>>
    /\ w_pc' = "done"
    /\ UNCHANGED <<p_vars, m_vars, r_vars, w_tree, w_stack, w_cur, visited, w_out, w_err>>

WalkNext == WalkYield \/ WalkBody \/ WalkDone

\* the for loop that consumes the generator keeps asking for the next file
SpecWalk == WalkInit /\ [][WalkNext]_vars /\ WF_vars(WalkNext)

-----------------------------------------------------------------------------
(* Properties *)

Has(e) == \E i \in 1..Len(trace) : trace[i] = e
Count(e) == Cardinality({ i \in 1..Len(trace) : trace[i] = e })
Known(d) == d # None /\ d[1] > 0

\* C1: the policy's result r satisfies 0 <= r < duration for every known
\* duration > 0 and every requested offset >= 0, and equals max(0, requested)
\* when the duration is unknown or <= 0.
PolicyBounded ==
    p_pc = "done" =>
        IF Known(p_dur)
        THEN p_req >= 0 => (0 <= p_res /\ p_res < p_dur[1])
        ELSE p_res = Max(0, p_req)

PolicyBoundedWitness ==
    p_pc = "done" /\ p_dur = Some(6500) /\ p_req = 12000 /\ p_res = 3900

\* C2 as claimed: below 60 s the offset never exceeds half the duration; it is
\* duration * 0.5 below about 5 s and min(requested, duration * 0.5) otherwise
\* (either of the two is accepted from 5 s to 6 s, "about 5 s").
ShortClampClaimed ==
    (p_pc = "done" /\ Known(p_dur) /\ p_dur[1] < 6000 /\ p_req >= 0) =>
        /\ 2 * p_res <= p_dur[1]
        /\ p_dur[1] < 500 => 2 * p_res = p_dur[1]
        /\ (500 <= p_dur[1] /\ p_dur[1] < 600) =>
              (2 * p_res = p_dur[1] \/ p_res = Min(p_req, p_dur[1] \div 2))
        /\ p_dur[1] >= 600 => p_res = Min(p_req, p_dur[1] \div 2)

\* C2 as amended: below 6 s the offset is duration * 0.5 (choose(120, 3) = 1.5);
\* from 6 s up to 60 s it is the requested offset when 0 < requested <
\* duration - 0.5 (choose(10, 40) = 10), duration * 0.6 when requested >=
\* duration - 0.5 (choose(120, 40) = 24, above half the duration), and
\* duration * 0.2 when requested = 0; it never exceeds duration - 0.2.
ShortClampActual ==
    (p_pc = "done" /\ Known(p_dur) /\ p_dur[1] < 6000 /\ p_req >= 0) =>
        /\ p_dur[1] < 600 => 2 * p_res = p_dur[1]
        /\ p_dur[1] >= 600 =>
              /\ (0 < p_req /\ p_req < p_dur[1] - 50) => p_res = p_req
              /\ p_req >= p_dur[1] - 50 => 10 * p_res = 6 * p_dur[1]
              /\ p_req = 0 => 10 * p_res = 2 * p_dur[1]
              /\ p_res <= p_dur[1] - 20
        /\ (p_req = 12000 /\ p_dur[1] = 300) => p_res = 150
        /\ (p_req = 1000 /\ p_dur[1] = 4000) => p_res = 1000

ShortClampWitness ==
    p_pc = "done" /\ p_dur = Some(4000) /\ p_req = 12000 /\ p_res = 2400

\* A step that renames the temporary file, written by the attempt just tested
\* (exit code 0, file present and non-empty), onto poster path q.
RenameOfFreshTmp(q) ==
    /\ pc \in {"commit1", "commit2"}
    /\ q = Target
    /\ fs'[q] = fs[Tmp]
    /\ fs'[Tmp] = Absent
    /\ nonempty(fs[Tmp])
    /\ Len(trace) > 0
    /\ trace[Len(trace)] = IF pc = "commit1" THEN "fast_ok" ELSE "compat_ok"

\* C3: a poster path gets new content only by a rename of the temporary file,
\* and only after the attempt that produced that temporary file returned exit
\* code 0 with the file present and non-empty; the tool never writes the
\* poster path itself (a deletion is not a write).
AtomicCommit ==
    [][\A q \in PosterPaths :
          fs'[q] # fs[q] => (fs'[q] = Absent \/ RenameOfFreshTmp(q))]_vars

\* C4: a file whose poster exists and is non-empty, with force off, is done
\* with skipped + 1 and nothing else: no probe, no attempt, no deletion, no
\* sleep (empty trace), no write, created and failed as before.
SkipOnly ==
    (pc = "loop" /\ idx > 0 /\ ~args.force /\ nonempty(start.target)) =>
        /\ skipped = start.skipped + 1
        /\ created = start.created
        /\ failed = start.failed
        /\ trace = <<>>
        /\ fs[Target] = start.target
        /\ fs[Tmp] = start.tmp
        /\ fs[Video] = VideoFile
        /\ rpc = "idle"

SkipOnlyWitness ==
    /\ pc = "loop" /\ idx > 0 /\ ~args.force /\ args.cooldown /\ ~args.dry_run
    /\ nonempty(start.target)
    /\ skipped = start.skipped + 1

FallbackEscalation ==
    /\ Count("fast") <= 1 /\ Count("compat") <= 1
    /\ \A j \in 1..Len(trace) :
          trace[j] = "compat" => \E i \in 1..(j - 1) : trace[i] = "fast_failed"
    /\ \A j \in 1..Len(trace) :
          trace[j] = "fast_failed" => \E i \in 1..(j - 1) : trace[i] = "fast"
    /\ (Has("compat_ok") /\ pc # "commit2") =>
          /\ Has("replace")
          /\ created = start.created + 1
          /\ failed = start.failed
          /\ fs[Target] = Written("full", Video)

BothAttemptsFailed == Has("fast_failed") /\ Has("compat_failed")

LastUnlinkRaised ==
    \E i \in 1..(Len(trace) - 1) :
        trace[i] = "compat_failed" /\ trace[i + 1] = "unlink_tmp_raised"

UndeletablePoster ==
    Has("unlink_target_raised") =>
        /\ args.force /\ ~args.dry_run
        /\ trace = <<"unlink_target_raised">>
        /\ pc \in {"loop", "exited"}
        /\ rpc = "idle"
        /\ failed = start.failed + 1
        /\ created = start.created
        /\ skipped = start.skipped
        /\ fs[Target] = start.target

UndeletablePosterWitness ==
    /\ Has("unlink_target_raised")
    /\ pc = "loop"
    /\ idx < Len(files)
    /\ nonempty(fs[Target])

\* C9: in dry-run mode, force or not, the filesystem stays as it was when the
\* run started, created and failed stay 0, there is no deletion, attempt,
\* rename or sleep, and the only command run is the duration probe.
DryRunNoMutation ==
    args.dry_run =>
        /\ fs = fs0
        /\ created = 0 /\ failed = 0
        /\ \A i \in 1..Len(trace) :
              trace[i] \in {"simulate_delete", "probe", "probe_run", "dry_report"}
        /\ proc.kind \in {"none", "probe"}

DryRunWitness ==
    /\ args.dry_run /\ args.force /\ args.cooldown
    /\ pc = "loop"
    /\ trace = <<"simulate_delete", "probe", "probe_run", "dry_report">>
    /\ nonempty(fs[Target])

\* C10: run_with_timeout returns only once the child has exited; after a
\* timeout it has sent SIGKILL to the process group, and to the direct child
\* only if that raised, and returns 124 with the captured stderr followed by
\* the [timeout] marker; without a timeout it returns the child's exit code
\* and stderr and has issued no kill.
RunnerProtocol ==
    /\ kills \in {<<>>, <<"killpg">>, <<"killpg_raised">>, <<"killpg_raised", "kill">>}
    /\ kills # <<>> => proc.timed_out
    /\ proc.signalled => (proc.setsid /\ kills \in {<<"killpg">>, <<"killpg_raised", "kill">>})
    /\ rpc = "returned" =>
          /\ ~proc.alive
          /\ IF proc.timed_out
             THEN /\ kills \in {<<"killpg">>, <<"killpg_raised", "kill">>}
                  /\ ret = [code |-> 124, stderr |-> proc.stderr \o <<"[timeout]">>]
             ELSE /\ kills = <<>>
                  /\ ret = [code |-> proc.code, stderr |-> proc.stderr]

RunnerTimeoutWitness ==
    /\ rpc = "returned" /\ proc.timed_out
    /\ kills = <<"killpg_raised", "kill">>
    /\ proc.code = -9
    /\ ret = [code |-> 124, stderr |-> <<"E", "[timeout]">>]

\* C11: every child process started for a file (each probe invocation, each
\* extraction attempt) is started by run_with_timeout in a session and process
\* group of its own, and is dead when run_with_timeout has returned.
SpawnIsolation ==
    /\ \A i \in 1..Len(spawns) : spawns[i].runner /\ spawns[i].setsid
    /\ proc.alive => proc.setsid
    /\ rpc = "returned" => ~proc.alive

\* C12: ffprobe_duration_seconds never raises: the run never ends in an
\* uncaught exception with the probe as the last thing started, and once the
\* probe is over dur is None or a number.
ProbeTotal ==
    /\ pc = "crashed" => (trace = <<>> \/ trace[Len(trace)] # "probe")
    /\ pc = "choose" => dur \in {None} \cup ProbeDurations

StartupPassed == startup = <<"root", "ffmpeg", "ffprobe">>

\* C13: once the startup checks have passed no per-file error ends the run:
\* the run never ends in an uncaught exception, and when it ends it has taken
\* every enumerated file, gives exit status 0 and (not in dry-run) has counted
\* each file as created, skipped or failed.
PerFileErrorsContained ==
    StartupPassed =>
        /\ pc # "crashed"
        /\ pc = "exited" =>
              /\ exit_status = 0
              /\ idx = Len(files)
              /\ processed = Len(files)
              /\ ~args.dry_run => processed = created + skipped + failed

\* C14: a failed startup check ends the process with exit status 1 before any
\* file is taken, probed, extracted, deleted or written; the checks are made
\* in the order root, ffmpeg, ffprobe, and files are processed only after all
\* three have passed.
StartupFirst ==
    /\ startup \in {<<>>, <<"root">>, <<"root", "ffmpeg">>, <<"root", "ffmpeg", "ffprobe">>}
    /\ ~StartupPassed =>
          /\ idx = 0 /\ processed = 0 /\ created = 0 /\ skipped = 0 /\ failed = 0
          /\ fs = fs0
          /\ trace = <<>> /\ spawns = <<>>
          /\ rpc = "idle"
          /\ pc \in {"check_root", "which_ffmpeg", "which_ffprobe", "exited"}
          /\ pc = "exited" => exit_status = 1
    /\ (pc = "exited" /\ exit_status = 1) => ~StartupPassed

StartupFirstWitness ==
    /\ pc = "exited" /\ exit_status = 1
    /\ startup = <<"root", "ffmpeg">>
    /\ Len(files) = 2
    /\ idx = 0 /\ fs = fs0 /\ spawns = <<>>

\* a symlink of the tree points from a directory back to itself or to one of
\* its ancestors
RECURSIVE IsAncestorOrSelf(_, _)
IsAncestorOrSelf(a, d) ==
    IF a = d THEN TRUE
    ELSE IF d = Root THEN FALSE
    ELSE IsAncestorOrSelf(a, w_tree.parent[d])

HasBackLink == \E l \in w_tree.links : IsAncestorOrSelf(l[2], l[1])

WalkSafe ==
    /\ \A i, j \in 1..Len(w_out) :
          (w_out[i].key = w_out[j].key /\ w_out[i].name = w_out[j].name) => i = j
    /\ \A i \in 1..Len(w_out) : w_out[i].key \in visited
    /\ \A i \in 1..Len(w_stack) : Len(w_stack[i]) <= MaxDirs
    /\ (w_pc = "done" /\ ~w_err) =>
          /\ visited = Dirs
          /\ { <<w_out[i].key, w_out[i].name>> : i \in 1..Len(w_out) }
                = { <<d, Path("v", "mp4")>> : d \in Dirs }

\* C15: on every tree, with symlinks back to ancestors or not, the walk ends;
\* visited only grows; no directory key has its files yielded twice; and when
\* no os.stat raised, every directory was visited and every video file was
\* yielded exactly once.
CycleSafe ==
    /\ []WalkSafe
    /\ [][visited \subseteq visited']_vars
    /\ <>(w_pc = "done")

CycleSafeWitness ==
    /\ w_pc = "done" /\ ~w_err
    /\ HasBackLink
    /\ <<2, 1>> \in w_tree.links
    /\ Len(w_out) = MaxDirs

IsCandidate(p) == \E i \in 1..Len(files) : files[i] = p

\* C16: whatever --ext adds to the allow-set, no path enumerated as a candidate
\* video is deleted, renamed over or written, and none is the output path of
\* an extraction.
SourcesUntouched ==
    [][/\ \A p \in Paths : IsCandidate(p) => fs'[p] = fs[p]
       /\ proc'.kind \in {"fast", "compat"} => ~IsCandidate(proc'.out)]_vars

Collide(v, w) == v # w /\ v.stem = w.stem

\* C17: two videos that differ only in their final suffix have the same
\* poster path, and after a run that committed a poster for both of them the
\* poster at that path is the one extracted from the video processed last.
LastOneWins ==
    /\ \A v, w \in VideoPool : Collide(v, w) => poster_path_for(v) = poster_path_for(w)
    /\ (/\ pc = "exited" /\ exit_status = 0
        /\ Len(files) = 2 /\ Collide(files[1], files[2])
        /\ created = 2) =>
          /\ nonempty(fs[poster_path_for(files[2])])
          /\ fs[poster_path_for(files[2])].src = Name(files[2])
          /\ fs[poster_path_for(files[1])].src = Name(files[2])

LastOneWinsWitness ==
    /\ pc = "exited" /\ exit_status = 0
    /\ files = <<Path("a", "mkv"), Path("a", "mp4")>>
    /\ created = 2
    /\ fs[Path("a-poster", "jpg")] = Written("full", Path("a", "mp4"))

\* C18 as claimed: for a known duration of 60 s or more and a requested offset
\* with 0 <= requested < duration the policy returns the requested offset.
LongRuleClaimed ==
    (/\ p_pc = "done" /\ Known(p_dur) /\ p_dur[1] >= 6000
     /\ 0 <= p_req /\ p_req < p_dur[1]) =>
        p_res = p_req

\* C18 as amended: for a known duration of 60 s or more the policy returns
\* the requested offset when 0 < requested < duration - 0.5; a request of 0
\* gives duration * 0.2, and a request within the last 0.5 s gives
\* duration * 0.6.
LongRuleActual ==
    (/\ p_pc = "done" /\ Known(p_dur) /\ p_dur[1] >= 6000
     /\ 0 <= p_req /\ p_req < p_dur[1]) =>
        /\ (0 < p_req /\ p_req < p_dur[1] - 50) => p_res = p_req
        /\ p_req = 0 => 10 * p_res = 2 * p_dur[1]
        /\ p_req >= p_dur[1] - 50 => 10 * p_res = 6 * p_dur[1]

LongRuleWitness ==
    p_pc = "done" /\ p_dur = Some(6030) /\ p_req = 6000 /\ p_res = 3618

\* C19: no counter ever decreases; and in a run without --dry-run, whenever a
\* file's processing is over (the loop is between two files, or the run has
\* ended, normally or not) that file has added one to processed and one to
\* exactly one of created, skipped, failed, so that
\* processed = created + skipped + failed.
CounterConservation ==
    [][/\ processed' >= processed /\ created' >= created
       /\ skipped' >= skipped /\ failed' >= failed
       /\ (~args'.dry_run /\ pc' \in {"loop", "exited", "crashed"}) =>
             /\ processed' = created' + skipped' + failed'
             /\ processed' = idx'
             /\ idx' > 0 =>
                   /\ created' >= start'.created
                   /\ skipped' >= start'.skipped
                   /\ failed' >= start'.failed
                   /\ created' + skipped' + failed'
                        = start'.created + start'.skipped + start'.failed + 1]_vars

\* C20: with --force and without --dry-run an existing non-empty poster is
\* deleted before the probe and before any attempt; when both attempts then
\* fail the file is counted as failed and no poster is left at the target
\* path (the old one is not restored).
ForceLosesPoster ==
    (args.force /\ ~args.dry_run /\ idx > 0 /\ nonempty(start.target)) =>
        /\ (Has("probe") \/ Has("fast") \/ Has("compat")) =>
              (trace[1] = "unlink_target" /\ Count("unlink_target") = 1)
        /\ (BothAttemptsFailed /\ pc \in {"cooldown", "loop", "exited"}) =>
              /\ fs[Target] = Absent
              /\ failed = start.failed + 1
              /\ created = start.created

ForceLosesPosterWitness ==
    /\ args.force /\ ~args.dry_run /\ idx > 0
    /\ start.target = Old("full")
    /\ BothAttemptsFailed
    /\ pc = "loop"
    /\ fs[Target] = Absent
    /\ failed = start.failed + 1

=============================================================================
